---- MODULE Spec2Model ----
(***************************************************************************)
(* Payevo PIX gateway: POST /transactions (createPayment) and              *)
(* GET /transactions/:transactionId (getPaymentStatus).                    *)
(*                                                                         *)
(* A JavaScript value is a record [t, s, n]: t is its type, s the tokens   *)
(* of a string, n the number.  Numbers are fixed-point: n stands for       *)
(* n/1000, so 30.00 is 30000 and 0.004 is 4; the amounts used are ones     *)
(* whose binary floating-point arithmetic gives the same results.  A       *)
(* string is a sequence of tokens, each a character or an indivisible      *)
(* word.                                                                   *)
(***************************************************************************)
EXTENDS Integers, Sequences, FiniteSets, TLC

VARIABLES
    rev,        \* which revision of the handler is deployed
    route,      \* the route of the request being handled, "" when there is none
    secretKey,  \* PAYEVO_SECRET_KEY is set
    companyId,  \* PAYEVO_COMPANY_ID is set (read by part_002 only)
    pc,         \* "idle", "awaiting" (suspended at fetch), "done"
    req,        \* req.body of the request being handled
    sent,       \* requestBody given to fetch
    calls,      \* outbound calls issued for this request
    reply,      \* what the provider answered: status, text, decoded document
    resp,       \* the response sent to the client
    other       \* a second request, handled while the first is suspended

vars == <<rev, route, secretKey, companyId, pc, req, sent, calls, reply, resp, other>>

----------------------------------------------------------------------------
(* JavaScript values *)

Unit == 10 * 100

Undef == [t |-> "undefined", s |-> <<>>, n |-> 0]
Null == [t |-> "null", s |-> <<>>, n |-> 0]
NaN == [t |-> "nan", s |-> <<>>, n |-> 0]
Obj == [t |-> "object", s |-> <<>>, n |-> 0]
True == [t |-> "boolean", s |-> <<>>, n |-> 1]
Num(k) == [t |-> "number", s |-> <<>>, n |-> k]
Whole(k) == Num(k * Unit)
Str(toks) == [t |-> "string", s |-> toks, n |-> 0]

Truthy(v) ==
    CASE v.t = "undefined" -> FALSE
      [] v.t = "null" -> FALSE
      [] v.t = "nan" -> FALSE
      [] v.t = "boolean" -> v.n = 1
      [] v.t = "number" -> v.n # 0
      [] v.t = "string" -> v.s # <<>>
      [] OTHER -> TRUE

Or(a, b) == IF Truthy(a) THEN a ELSE b

DigitChars == <<"0", "1", "2", "3", "4", "5", "6", "7", "8", "9">>
IsDigit(c) == \E i \in 1..10 : DigitChars[i] = c
DigitVal(c) == (CHOOSE i \in 1..10 : DigitChars[i] = c) - 1
IsSpace(c) == c = " "

RECURSIVE LeadingDigits(_)
LeadingDigits(s) ==
    IF s # <<>> /\ IsDigit(Head(s)) THEN 1 + LeadingDigits(Tail(s)) ELSE 0

RECURSIVE LeadingSpaces(_)
LeadingSpaces(s) ==
    IF s # <<>> /\ IsSpace(Head(s)) THEN 1 + LeadingSpaces(Tail(s)) ELSE 0

RECURSIVE TrailingSpaces(_)
TrailingSpaces(s) ==
    IF s # <<>> /\ IsSpace(s[Len(s)])
    THEN 1 + TrailingSpaces(SubSeq(s, 1, Len(s) - 1)) ELSE 0

Drop(s, k) == SubSeq(s, k + 1, Len(s))

Trim(s) ==
    LET a == Drop(s, LeadingSpaces(s))
    IN SubSeq(a, 1, Len(a) - TrailingSpaces(a))

RECURSIVE NatOf(_)
NatOf(ds) ==
    IF ds = <<>> THEN 0
    ELSE 10 * NatOf(SubSeq(ds, 1, Len(ds) - 1)) + DigitVal(ds[Len(ds)])

\* the fraction digits, in thousandths
FracOf(ds) ==
    (IF Len(ds) >= 1 THEN 100 * DigitVal(ds[1]) ELSE 0)
    + (IF Len(ds) >= 2 THEN 10 * DigitVal(ds[2]) ELSE 0)
    + (IF Len(ds) >= 3 THEN DigitVal(ds[3]) ELSE 0)

\* the longest decimal literal s starts with: [sign] digits [. digits]
DecimalPrefix(s) ==
    LET neg == s # <<>> /\ Head(s) = "-"
        u == IF s # <<>> /\ Head(s) \in {"-", "+"} THEN Tail(s) ELSE s
        k == LeadingDigits(u)
        a == Drop(u, k)
        dot == a # <<>> /\ Head(a) = "."
        f == IF dot THEN LeadingDigits(Tail(a)) ELSE 0
        frac == IF dot THEN SubSeq(Tail(a), 1, f) ELSE <<>>
        used == (Len(s) - Len(u)) + k + (IF dot /\ (k > 0 \/ f > 0) THEN 1 + f ELSE 0)
        mag == NatOf(SubSeq(u, 1, k)) * Unit + FracOf(frac)
    IN [ok |-> k > 0 \/ f > 0,
        n |-> IF neg THEN 0 - mag ELSE mag,
        rest |-> Drop(s, used)]

\* parseFloat(v): the argument is converted to a string first
ParseFloat(v) ==
    CASE v.t = "number" -> v
      [] v.t = "string" ->
            LET d == DecimalPrefix(Drop(v.s, LeadingSpaces(v.s)))
            IN IF d.ok THEN Num(d.n) ELSE NaN
      [] OTHER -> NaN

\* Number(v), the conversion the / operator applies to its operands
ToNumber(v) ==
    CASE v.t = "number" -> v
      [] v.t = "boolean" -> Whole(v.n)
      [] v.t = "null" -> Num(0)
      [] v.t = "string" ->
            LET t == Trim(v.s)
                d == DecimalPrefix(t)
            IN IF t = <<>> THEN Num(0)
               ELSE IF d.ok /\ d.rest = <<>> THEN Num(d.n) ELSE NaN
      [] OTHER -> NaN

IsNaN(v) == v.t = "nan"

\* Math.round: to the nearest integer, halves up
Round(v) == IF v.t = "number" THEN Num(((v.n + Unit \div 2) \div Unit) * Unit) ELSE NaN

Times100(v) == IF v.t = "number" THEN Num(v.n * 100) ELSE NaN

\* x / 100; the model's numbers keep three decimals
Div100(v) == IF v.t = "number" THEN Num(v.n \div 100) ELSE NaN

\* faulty variant: only the first non-digit is removed
RECURSIVE StripFirstNonDigit(_)
StripFirstNonDigit(s) ==
    IF s = <<>> THEN <<>>
    ELSE IF IsDigit(Head(s)) THEN <<Head(s)>> \o StripFirstNonDigit(Tail(s))
    ELSE Tail(s)

\* s.replace(/\D/g, '')
RECURSIVE StripNonDigits(_)
StripNonDigits(s) ==
    IF s = <<>> THEN <<>>
    ELSE IF IsDigit(Head(s)) THEN <<Head(s)>> \o StripNonDigits(Tail(s))
    ELSE StripNonDigits(Tail(s))

----------------------------------------------------------------------------
(* Requests.  customer and customer.document are flattened: name, email,   *)
(* phone and document are the members of customer, docNumber and docType   *)
(* those of customer.document; transactionId is req.params.transactionId.  *)

\* o.member, for a member access that does not throw
Member(o, v) == IF o.t = "object" THEN v ELSE Undef

BaseReq ==
    [customer |-> Obj,
     name |-> Str(<<"Joao Silva">>),
     email |-> Str(<<"joao@email.com">>),
     phone |-> Str(<<"(", "1", "1", ")", " ", "9", "-", "9">>),
     document |-> Obj,
     docNumber |-> Str(<<"0", "4", "2", ".", "8", "-", "5">>),
     docType |-> Str(<<"CPF">>),
     amount |-> Whole(30),
     expiresInDays |-> Whole(1),
     productName |-> Str(<<"#pedido7826">>),
     externalRef |-> Str(<<"PED123456">>),
     transactionId |-> Undef]

Amounts ==
    { Undef, Null, Str(<<>>), Str(<<" ">>), Str(<<"a", "b", "c">>), True, Obj,
      Num(0), Str(<<"0">>), Str(<<"0", ".", "0", "0">>), Whole(0 - 5), Str(<<"-", "5">>),
      Whole(30), Str(<<"3", "0", ".", "0", "0">>), Str(<<" ", "1", "2", "a">>),
      Num(4), Str(<<"0", ".", "0", "0", "5">>), Num(500), Num(30990) }

\* every combination of missing customer members, with every amount, a phone
\* that is a string or a number, and a document with or without its number
PresenceReqs ==
    { [BaseReq EXCEPT !.customer = c,
                      !.name = Member(c, IF "name" \in miss THEN Undef ELSE @),
                      !.email = Member(c, IF "email" \in miss THEN Undef ELSE @),
                      !.phone = Member(c, IF "phone" \in miss THEN Undef ELSE ph),
                      !.document = Member(c, IF "document" \in miss THEN Undef ELSE @),
                      !.docNumber = IF "document" \in miss \/ c.t # "object" THEN Undef ELSE dn,
                      !.docType = IF "document" \in miss \/ c.t # "object" THEN Undef ELSE @,
                      !.amount = a] :
        c \in {Obj, Undef, Null}, miss \in SUBSET {"name", "email", "phone", "document"},
        ph \in {BaseReq.phone, Whole(11999)}, dn \in {BaseReq.docNumber, Undef},
        a \in Amounts }

\* members present with other types or empty, and the optional fields left out
ShapeReqs ==
    { [BaseReq EXCEPT !.phone = p] : p \in {Str(<<>>), Whole(11999), Str(<<"1", "1", "9">>)} }
    \cup { [BaseReq EXCEPT !.document = Str(<<"0", "4", "2">>), !.docNumber = Undef,
                           !.docType = Undef] }
    \cup { [BaseReq EXCEPT !.docNumber = d, !.docType = t] :
             d \in {Undef, Whole(42), Str(<<>>)}, t \in {Undef, Str(<<"CNPJ">>)} }
    \cup { [BaseReq EXCEPT !.name = Str(<<>>)], [BaseReq EXCEPT !.email = Str(<<>>)] }
    \cup { [BaseReq EXCEPT !.expiresInDays = e, !.productName = Undef, !.externalRef = Undef] :
             e \in {Undef, Whole(3)} }

Requests == PresenceReqs \cup ShapeReqs

----------------------------------------------------------------------------
(* Responses: the HTTP status and the members of the JSON body; a member   *)
(* the body does not have is Undef.                                        *)

NoResp ==
    [http |-> 0, error |-> Undef, message |-> Undef, details |-> Undef,
     status |-> Undef, rawResponse |-> Undef, payload |-> Undef, qrCode |-> Undef,
     qrCodeUrl |-> Undef, transactionId |-> Undef, amount |-> Undef,
     expirationDate |-> Undef, paidAt |-> Undef, createdAt |-> Undef]

ErrorBody(http, error, message) ==
    [NoResp EXCEPT !.http = http, !.error = Str(<<error>>), !.message = message]

\* JSON.stringify writes NaN as null
JsonNumber(v) == IF v.t = "nan" THEN Null ELSE v

\* the catch of the whole handler
InternalError(message) ==
    ErrorBody(500, "Erro interno do servidor", Or(Str(<<message>>), Str(<<"Erro desconhecido">>)))

----------------------------------------------------------------------------
(* Request validation and the outbound body *)

Revisions == {"server.js", "server.js:363", "part_001", "part_002"}

ConfigMissing(rv, key, cid) == ~key \/ (rv = "part_002" /\ ~cid)

ConfigError(rv) ==
    ErrorBody(500, "Configuracao do servidor incompleta",
              Str(<<IF rv = "part_002" THEN "credenciais nao configuradas"
                    ELSE "chave secreta nao configurada">>))

\* faulty variant: customer.document is not checked
MissingDataNoDocument(r) ==
    \/ ~Truthy(r.customer)
    \/ ~Truthy(r.amount)
    \/ ~Truthy(Member(r.customer, r.name))
    \/ ~Truthy(Member(r.customer, r.email))
    \/ ~Truthy(Member(r.customer, r.phone))

MissingData(r) ==
    \/ ~Truthy(r.customer)
    \/ ~Truthy(r.amount)
    \/ ~Truthy(Member(r.customer, r.name))
    \/ ~Truthy(Member(r.customer, r.email))
    \/ ~Truthy(Member(r.customer, r.phone))
    \/ ~Truthy(Member(r.customer, r.document))

AmountNumber(r) == ParseFloat(r.amount)

\* faulty variant: zero is let through
InvalidAmountOnlyNegative(an) == IsNaN(an) \/ an.n < 0

InvalidAmount(an) == IsNaN(an) \/ an.n <= 0

MINIMUM_AMOUNT == Whole(1)

BelowMinimum(rv, an) == rv = "part_002" /\ an.n < MINIMUM_AMOUNT.n

\* the three unit policies
AmountInCents(an) == Round(Times100(an))
AmountInt(an) == Round(an)

OutboundAmount(rv, an) ==
    CASE rv = "server.js" -> AmountInCents(an)
      [] rv \in {"server.js:363", "part_001"} -> AmountInt(an)
      [] OTHER -> an

\* faulty variant: the unit price is the client's amount, unconverted
OutboundUnitPriceUnconverted(rv, an) == an

OutboundUnitPrice(rv, an) ==
    CASE rv = "server.js" -> AmountInCents(an)
      [] rv \in {"server.js:363", "part_001"} -> AmountInt(an)
      [] OTHER -> an

\* customer.phone.replace and customer.document.number.replace throw a
\* TypeError unless the receiver is a string
BuildError(r) ==
    IF r.phone.t # "string" THEN "customer.phone.replace is not a function"
    ELSE IF Member(r.document, r.docNumber).t \in {"undefined", "null"}
    THEN "Cannot read properties of undefined (reading 'replace')"
    ELSE IF Member(r.document, r.docNumber).t # "string"
    THEN "customer.document.number.replace is not a function"
    ELSE ""

NoBody ==
    [name |-> Undef, email |-> Undef, phone |-> Undef, docNumber |-> Undef,
     docType |-> Undef, paymentMethod |-> Undef, expiresInDays |-> Undef,
     amount |-> Undef, title |-> Undef, unitPrice |-> Undef, quantity |-> Undef,
     externalRef |-> Undef, companyId |-> Undef]

RequestBody(rv, r, an, genTitle, genRef) ==
    [name |-> r.name,
     email |-> r.email,
     phone |-> Str(StripNonDigits(r.phone.s)),
     docNumber |-> Str(StripNonDigits(r.docNumber.s)),
     docType |-> Or(Member(r.document, r.docType), Str(<<"CPF">>)),
     paymentMethod |-> Str(<<"PIX">>),
     expiresInDays |-> Or(r.expiresInDays, Whole(1)),
     amount |-> OutboundAmount(rv, an),
     title |-> Or(r.productName, genTitle),
     unitPrice |-> OutboundUnitPrice(rv, an),
     quantity |-> Whole(1),
     externalRef |-> Or(r.externalRef, genRef),
     companyId |-> IF rv = "part_002" THEN Str(<<"PAYEVO_COMPANY_ID">>) ELSE Undef]

\* `#pedido${...}` from Math.random, `PED${Date.now()}`
GeneratedTitles == {Str(<<"#pedido0042">>), Str(<<"#pedido9137">>)}
GeneratedRefs == {Str(<<"PED1700000000000">>)}

\* faulty variant: the configuration is looked at after the request
EarlyResponseValidatesFirst(rv, key, cid, r) ==
    IF MissingData(r)
    THEN ErrorBody(400, "Dados invalidos",
                   Str(<<"E necessario fornecer: customer (name, email, phone, document), amount">>))
    ELSE IF ConfigMissing(rv, key, cid) THEN ConfigError(rv)
    ELSE NoResp

\* what the handler does before it reaches fetch: the response it sends, or
\* NoResp when it goes on to call the provider
EarlyResponse(rv, key, cid, r) ==
    IF ConfigMissing(rv, key, cid) THEN ConfigError(rv)
    ELSE IF MissingData(r)
    THEN ErrorBody(400, "Dados invalidos",
                   Str(<<"E necessario fornecer: customer (name, email, phone, document), amount">>))
    ELSE IF InvalidAmount(AmountNumber(r))
    THEN ErrorBody(400, "Valor invalido", Str(<<"O valor deve ser um numero maior que zero">>))
    ELSE IF BelowMinimum(rv, AmountNumber(r))
    THEN ErrorBody(400, "Valor muito baixo", Str(<<"O valor minimo e R$ 1.00">>))
    ELSE IF BuildError(r) # "" THEN InternalError(BuildError(r))
    ELSE NoResp

----------------------------------------------------------------------------
(* Provider replies.  The text is a sequence of tokens; the token "{...}"  *)
(* stands for the serialization of the reply's JSON document, whose value  *)
(* is doc.v and whose members (pix and transaction flattened) are doc.f.   *)

NoFields ==
    [error |-> Undef, message |-> Undef, details |-> Undef,
     payload |-> Undef, pixCopyPaste |-> Undef, pix_copyPaste |-> Undef,
     pix_qrcode |-> Undef, pix_qrCode |-> Undef,
     qrCodeBase64 |-> Undef, qrCode |-> Undef,
     qrCodeUrl |-> Undef, pix_qrCodeUrl |-> Undef, pix_receiptUrl |-> Undef,
     pix_expirationDate |-> Undef,
     id |-> Undef, transactionId |-> Undef, transaction_id |-> Undef,
     status |-> Undef, amount |-> Undef, paidAt |-> Undef, createdAt |-> Undef]

NoDoc == [v |-> Undef, f |-> NoFields]
JsonObject(f) == [v |-> Obj, f |-> f]
JsonValue(v) == [v |-> v, f |-> NoFields]

NoReply == [status |-> 0, text |-> <<>>, doc |-> NoDoc]

DocToken == "{...}"

FeeWords == {"taxas", "taxa", "Valor somado"}
OldFeeWords == {"taxas", "taxa"}

\* token tok contains the word w
TokenHas(tok, w) == tok = w \/ (tok = "taxas" /\ w = "taxa")

FieldNames == DOMAIN NoFields

\* the serialization of doc contains the word w
DocHas(doc, w) ==
    \/ doc.v.t = "string" /\ \E i \in 1..Len(doc.v.s) : TokenHas(doc.v.s[i], w)
    \/ \E k \in FieldNames :
          doc.f[k].t = "string" /\ \E i \in 1..Len(doc.f[k].s) : TokenHas(doc.f[k].s[i], w)

\* responseText.includes(w)
Includes(text, doc, w) ==
    \E i \in 1..Len(text) :
        IF text[i] = DocToken THEN DocHas(doc, w) ELSE TokenHas(text[i], w)

\* /^0\s/.test(s) and s.replace(/^0\s+/, '')
StartsZeroSpace(s) == Len(s) >= 2 /\ s[1] = "0" /\ IsSpace(s[2])
StripZero(s) == IF StartsZeroSpace(s) THEN Drop(s, 1 + LeadingSpaces(Tail(s))) ELSE s

\* /^\d+\s/.test(s) and s.replace(/^\d+\s+/, '')
StartsDigitsSpace(s) ==
    LET k == LeadingDigits(s) IN k > 0 /\ Len(s) > k /\ IsSpace(s[k + 1])
StripDigits(s) ==
    IF StartsDigitsSpace(s)
    THEN Drop(s, LeadingDigits(s) + LeadingSpaces(Drop(s, LeadingDigits(s))))
    ELSE s

\* faulty variant: no prefix is stripped
CleanedResponseUnstripped(rv, text) == Trim(text)

\* cleanedResponse
CleanedResponse(rv, text) ==
    IF rv \in {"server.js", "part_001"}
    THEN StripDigits(StripZero(Trim(text)))
    ELSE StripDigits(Trim(text))

NotJson == [ok |-> FALSE, v |-> Undef, f |-> NoFields]

\* JSON.parse: a document, or a number without a leading zero
JsonParse(s, doc) ==
    LET t == Trim(s) IN
    IF t = <<DocToken>> THEN [ok |-> TRUE, v |-> doc.v, f |-> doc.f]
    ELSE IF t # <<>> /\ LeadingDigits(t) = Len(t) /\ (Len(t) = 1 \/ t[1] # "0")
    THEN [ok |-> TRUE, v |-> Whole(NatOf(t)), f |-> NoFields]
    ELSE NotJson

\* the try block around JSON.parse: in server.js it also reads
\* responseData.pix for its log, which throws on null
TryParse(rv, text, doc) ==
    LET d == JsonParse(CleanedResponse(rv, text), doc)
    IN IF d.ok /\ rv = "server.js" /\ d.v.t = "null" THEN NotJson ELSE d

ResponseOk(status) == status >= 200 /\ status < 300

----------------------------------------------------------------------------
(* The response to a provider reply *)

\* faulty variant: "Valor somado" is not looked for
HasFeeWordingTaxaOnly(rv, text, doc) == \E w \in OldFeeWords : Includes(text, doc, w)

\* the catch of the try block: the body is a text message of the provider
HasFeeWording(rv, text, doc) ==
    \E w \in (IF rv \in {"server.js", "part_001"} THEN FeeWords ELSE OldFeeWords) :
        Includes(text, doc, w)

TextDetail(rv, text) ==
    IF rv \in {"server.js", "part_001"} THEN Str(Trim(StripZero(text))) ELSE Str(text)

StatusOr500(status) == IF status = 0 THEN 500 ELSE status

TextErrorResponse(rv, status, text, doc) ==
    IF HasFeeWording(rv, text, doc)
    THEN [ErrorBody(400, "Erro no valor",
                    Str(<<"O valor informado nao e suficiente apos as taxas. Tente um valor maior">>))
            EXCEPT !.details = TextDetail(rv, text)]
    ELSE [ErrorBody(StatusOr500(status), "Erro na API Payevo",
                    Or(TextDetail(rv, text), Str(<<"Erro desconhecido">>)))
            EXCEPT !.status = Whole(status), !.rawResponse = Str(text)]

\* if (!response.ok)
ProviderErrorResponse(status, text, d) ==
    [ErrorBody(status, "Erro na API Payevo",
               Or(d.f.message, Or(d.f.details, Str(text))))
        EXCEPT !.error = Or(d.f.error, Str(<<"Erro na API Payevo">>)),
               !.details = d.v]

StartsWith(v, marker) == v.s # <<>> /\ v.s[1] = marker

ImageMarker == "data:image"

\* v && v.startsWith('data:image') throws on a truthy value that is no string
MarkerThrows(v) == Truthy(v) /\ v.t # "string"
IsImage(v) == Truthy(v) /\ StartsWith(v, ImageMarker)

QrCodeThrows(f) ==
    \/ MarkerThrows(f.qrCodeBase64)
    \/ ~IsImage(f.qrCodeBase64) /\ MarkerThrows(f.qrCode)

\* faulty variant: the image marker is not required
qrCodeBase64ValueUnchecked(f) == Or(f.qrCodeBase64, Or(f.qrCode, Str(<<>>)))

qrCodeBase64Value(f) ==
    IF IsImage(f.qrCodeBase64) THEN f.qrCodeBase64
    ELSE IF IsImage(f.qrCode) THEN f.qrCode
    ELSE Str(<<>>)

qrCodeUrlValue(f) ==
    IF Truthy(f.qrCodeUrl) THEN f.qrCodeUrl
    ELSE IF Truthy(f.pix_qrCodeUrl) THEN f.pix_qrCodeUrl
    ELSE IF Truthy(f.pix_receiptUrl) THEN f.pix_receiptUrl
    ELSE Str(<<>>)

\* faulty variant: pix.qrcode is not a payload location
payloadValueWithoutQrcode(f) ==
    Or(f.payload, Or(f.pixCopyPaste, Or(f.pix_copyPaste, Str(<<>>))))

payloadValue(f) ==
    Or(f.payload, Or(f.pixCopyPaste, Or(f.pix_copyPaste, Or(f.pix_qrcode, Str(<<>>)))))

\* payloadValue.substring, in the log, throws on a truthy value that is no string
PayloadThrows(f) == Truthy(payloadValue(f)) /\ payloadValue(f).t # "string"

responseAmount(f, an) ==
    IF Truthy(f.amount) THEN Div100(ToNumber(f.amount)) ELSE an

transactionIdValue(f) ==
    Or(f.id, Or(f.transactionId, Or(f.transaction_id, Str(<<>>))))

statusValue(f) == Or(f.status, Str(<<"pending">>))

\* server.js, lines 282-339
SuccessResponse(f, an) ==
    IF QrCodeThrows(f) THEN InternalError("startsWith is not a function")
    ELSE IF PayloadThrows(f) THEN InternalError("payloadValue.substring is not a function")
    ELSE [NoResp EXCEPT !.http = 200,
                        !.payload = payloadValue(f),
                        !.qrCode = qrCodeBase64Value(f),
                        !.qrCodeUrl = qrCodeUrlValue(f),
                        !.transactionId = transactionIdValue(f),
                        !.amount = JsonNumber(responseAmount(f, an)),
                        !.status = statusValue(f),
                        !.expirationDate = Or(f.pix_expirationDate, Null)]

\* the earlier revisions' res.json
OldSuccessResponse(f, amount) ==
    [NoResp EXCEPT !.http = 200,
                   !.payload = Or(f.payload, Or(f.pixCopyPaste, Or(f.pix_copyPaste, Str(<<>>)))),
                   !.qrCode = Or(f.qrCode, Or(f.pix_qrCode, Or(f.qrCodeBase64, Str(<<>>)))),
                   !.qrCodeUrl = Or(f.qrCodeUrl, Or(f.pix_qrCodeUrl, Str(<<>>))),
                   !.transactionId = transactionIdValue(f),
                   !.amount = Or(f.amount, amount),
                   !.status = statusValue(f)]

\* everything after `await response.text()`
ReplyResponse(rv, r, status, text, doc) ==
    LET d == TryParse(rv, text, doc) IN
    IF ~d.ok THEN TextErrorResponse(rv, status, text, doc)
    ELSE IF d.v.t = "null"
    THEN InternalError("Cannot read properties of null")
    ELSE IF ~ResponseOk(status) THEN ProviderErrorResponse(status, text, d)
    ELSE IF rv = "server.js" THEN SuccessResponse(d.f, AmountNumber(r))
    ELSE OldSuccessResponse(d.f, r.amount)

----------------------------------------------------------------------------
(* GET /transactions/:transactionId *)

\* the request of a status lookup: no body, the id in the path
StatusRequest(id) ==
    [BaseReq EXCEPT !.customer = Undef, !.name = Undef, !.email = Undef, !.phone = Undef,
                    !.document = Undef, !.docNumber = Undef, !.docType = Undef,
                    !.amount = Undef, !.expiresInDays = Undef, !.productName = Undef,
                    !.externalRef = Undef, !.transactionId = id]

StatusConfigError ==
    ErrorBody(500, "Configuracao do servidor incompleta",
              Str(<<"A chave secreta da Payevo nao foi configurada no Railway.">>))

\* what the handler does before it reaches fetch: the response it sends, or
\* NoResp when it goes on to call the provider
StatusEarlyResponse(key, id) ==
    IF ~key THEN StatusConfigError
    ELSE IF ~Truthy(id)
    THEN [NoResp EXCEPT !.http = 400, !.error = Str(<<"ID da transacao e obrigatorio">>)]
    ELSE NoResp

\* faulty variant: every provider failure is answered 500
StatusProviderErrorAs500(status, text) ==
    ErrorBody(500, "Erro ao verificar transacao", Str(text))

\* if (!response.ok)
StatusProviderError(status, text) ==
    ErrorBody(status, "Erro ao verificar transacao", Str(text))

\* responseData.amount ? responseData.amount / 100 : null
StatusAmount(f) ==
    IF Truthy(f.amount) THEN JsonNumber(Div100(ToNumber(f.amount))) ELSE Null

\* the res.json of the status lookup
StatusResult(f, id) ==
    [NoResp EXCEPT !.http = 200,
                   !.transactionId = Or(f.id, id),
                   !.status = Or(f.status, Str(<<"unknown">>)),
                   !.amount = StatusAmount(f),
                   !.paidAt = Or(f.paidAt, Null),
                   !.createdAt = Or(f.createdAt, Null)]

\* everything after `await response.text()`; the body is decoded as it came,
\* and the log of responseData.status throws on null
StatusReplyResponse(id, status, text, doc) ==
    LET d == JsonParse(text, doc) IN
    IF ~ResponseOk(status) THEN StatusProviderError(status, text)
    ELSE IF ~d.ok
    THEN ErrorBody(500, "Erro ao processar resposta da Payevo", Str(text))
    ELSE IF d.v.t = "null"
    THEN InternalError("Cannot read properties of null (reading 'status')")
    ELSE StatusResult(d.f, id)

----------------------------------------------------------------------------
(* The replies the provider is given to send *)

MaxPrefixes == 2

DigitRuns == {<<"0">>, <<"7">>, <<"1", "2">>}

\* up to k numeric tokens, each followed by a space
RECURSIVE Prefixes(_)
Prefixes(k) ==
    IF k = 0 THEN {<<>>}
    ELSE {<<>>} \cup {run \o <<" ">> \o p : run \in DigitRuns, p \in Prefixes(k - 1)}

FeeMessage == <<"Valor somado", " ", "com as", " ", "taxas", " ", "excede">>

ProseCores ==
    { <<>>, <<"Internal Server Error">>, FeeMessage, <<"taxa", " ", "minima">>,
      <<"Taxa", " ", "Minima">>, <<"Valor somado", " ", "excede">>, <<"7">>, <<"0", "7">> }

ErrorDocs ==
    { JsonObject([NoFields EXCEPT !.error = e, !.message = m, !.details = d,
                                  !.status = IF Truthy(m) THEN Str(<<"error">>) ELSE Undef]) :
        e \in {Undef, Str(<<"invalid_amount">>)},
        m \in {Undef, Str(<<>>), Str(FeeMessage), Str(<<"Recusado">>)},
        d \in {Undef, Str(<<"limite">>)} }

PrimitiveDocs == {JsonValue(Null), JsonValue(Str(<<"Valor somado">>)), JsonValue(Str(<<"ok">>))}

Image(name) == Str(<<ImageMarker, name>>)

PayloadDocs ==
    { JsonObject([NoFields EXCEPT !.id = Str(<<"tx_1">>), !.status = Str(<<"pending">>),
                                  !.payload = a, !.pixCopyPaste = b,
                                  !.pix_copyPaste = c, !.pix_qrcode = d]) :
        a \in {Undef, Str(<<>>), Str(<<"000201", "A">>), Whole(7)},
        b \in {Undef, Str(<<>>), Str(<<"000201", "B">>)},
        c \in {Undef, Str(<<>>), Str(<<"000201", "C">>)},
        d \in {Undef, Str(<<"000201", "D">>), Image("D")} }

QrDocs ==
    { JsonObject([NoFields EXCEPT !.id = Str(<<"tx_1">>),
                                  !.qrCodeBase64 = a, !.qrCode = b,
                                  !.pix_qrcode = c, !.pix_qrCode = d]) :
        a \in {Undef, Image("A"), Str(<<"000201", "A">>), Whole(7)},
        b \in {Undef, Image("B"), Str(<<"000201", "B">>), True},
        c \in {Undef, Image("C")},
        d \in {Undef, Image("D")} }

UrlDocs ==
    { JsonObject([NoFields EXCEPT !.qrCodeUrl = a, !.pix_qrCodeUrl = b, !.pix_receiptUrl = c,
                                  !.pix_expirationDate = e]) :
        a \in {Undef, Str(<<"https://qr/a">>)},
        b \in {Undef, Str(<<"https://qr/b">>)},
        c \in {Undef, Str(<<"https://qr/c">>)},
        e \in {Undef, Str(<<"2026-01-01">>)} }

IdDocs ==
    { JsonObject([NoFields EXCEPT !.id = a, !.transactionId = b, !.transaction_id = c,
                                  !.status = st]) :
        a \in {Undef, Str(<<>>), Str(<<"tx_1">>), Whole(77)},
        b \in {Undef, Str(<<"tx_2">>)},
        c \in {Undef, Str(<<"tx_3">>)},
        st \in {Undef, Str(<<"paid">>)} }

AmountDocs ==
    { JsonObject([NoFields EXCEPT !.id = Str(<<"tx_1">>), !.amount = a]) :
        a \in { Undef, Null, Num(0), Whole(3000), Whole(5), Whole(3099),
                Whole(1), Whole(50), Whole(1200),
                Str(<<"3", "0", "0", "0">>), Str(<<"a", "b", "c">>), True } }

SmallDocs ==
    PrimitiveDocs
    \cup { JsonObject(NoFields),
           JsonObject([NoFields EXCEPT !.status = Str(<<"error">>), !.message = Str(FeeMessage)]),
           JsonObject([NoFields EXCEPT !.id = Str(<<"tx_1">>), !.status = Str(<<"pending">>),
                                       !.pix_qrcode = Str(<<"000201", "D">>)]) }

Docs ==
    ErrorDocs \cup PrimitiveDocs \cup PayloadDocs \cup QrDocs \cup UrlDocs \cup IdDocs
    \cup AmountDocs

ProviderStatuses == {200, 201, 400, 503}

\* a text, or a document with text after it, behind any prefix
NoisyReplies ==
    { [status |-> st, text |-> pad \o p \o core, doc |-> NoDoc] :
        st \in ProviderStatuses, pad \in {<<>>, <<" ">>}, p \in Prefixes(MaxPrefixes),
        core \in ProseCores }
    \cup { [status |-> st, text |-> pad \o p \o <<DocToken>> \o tail, doc |-> d] :
        st \in ProviderStatuses, pad \in {<<>>, <<" ">>}, p \in Prefixes(MaxPrefixes),
        tail \in {<<>>, <<" ", "x">>, <<" ">>}, d \in SmallDocs }

\* every document, alone or behind "0 "
DocReplies ==
    { [status |-> st, text |-> p \o <<DocToken>>, doc |-> d] :
        st \in ProviderStatuses, p \in {<<>>, <<"0", " ">>}, d \in Docs }

Replies == NoisyReplies \cup DocReplies

\* the ids a status lookup is made for: the route matches a non-empty segment
TransactionIds == {Str(<<"tx_1">>), Str(<<"tx_9">>)}

StatusDocs ==
    { JsonObject([NoFields EXCEPT !.id = i, !.status = st, !.amount = a,
                                  !.paidAt = p, !.createdAt = c]) :
        i \in {Undef, Str(<<>>), Str(<<"tx_1">>)},
        st \in {Undef, Str(<<"paid">>)},
        a \in { Undef, Null, Num(0), Whole(3000), Whole(3099), Whole(5),
                Str(<<"3", "0", "0", "0">>), Str(<<"a", "b", "c">>), True },
        p \in {Undef, Null, Str(<<"2026-01-02T10:00:00Z">>)},
        c \in {Undef, Str(<<"2026-01-01T09:00:00Z">>)} }
    \cup PrimitiveDocs

StatusProviderStatuses == {200, 201, 400, 404, 503}

\* a document alone or behind "0 ", a text, a bare number or nothing at all
StatusReplies ==
    { [status |-> st, text |-> p \o <<DocToken>>, doc |-> d] :
        st \in StatusProviderStatuses, p \in {<<>>, <<"0", " ">>, <<" ">>}, d \in StatusDocs }
    \cup { [status |-> st, text |-> core, doc |-> NoDoc] :
        st \in StatusProviderStatuses,
        core \in {<<>>, <<"Internal Server Error">>, <<"Not Found">>, <<"7">>, <<"0", "7">>} }

----------------------------------------------------------------------------
(* The handler as a state machine *)

PostRoute == "POST /transactions"
GetRoute == "GET /transactions/:transactionId"

\* a request as the handler holds it: its position, input, outbound body,
\* number of outbound calls, provider reply and response
NoOther ==
    [pc |-> "idle", req |-> BaseReq, sent |-> NoBody, calls |-> 0,
     reply |-> NoReply, resp |-> NoResp]

Init ==
    /\ rev = "server.js"
    /\ route = ""
    /\ secretKey \in BOOLEAN
    /\ companyId = FALSE
    /\ pc = "idle"
    /\ req = BaseReq
    /\ sent = NoBody
    /\ calls = 0
    /\ reply = NoReply
    /\ resp = NoResp
    /\ other = NoOther

InitRevisions ==
    /\ rev \in Revisions
    /\ route = ""
    /\ secretKey = TRUE
    /\ companyId \in BOOLEAN
    /\ pc = "idle"
    /\ req = BaseReq
    /\ sent = NoBody
    /\ calls = 0
    /\ reply = NoReply
    /\ resp = NoResp
    /\ other = NoOther

\* POST /transactions up to its suspension at `await fetch`
CreatePayment(r, genTitle, genRef) ==
    /\ pc = "idle"
    /\ route' = PostRoute
    /\ req' = r
    /\ reply' = NoReply
    /\ IF EarlyResponse(rev, secretKey, companyId, r) # NoResp
       THEN /\ resp' = EarlyResponse(rev, secretKey, companyId, r)
            /\ pc' = "done"
            /\ sent' = NoBody
            /\ calls' = 0
       ELSE /\ sent' = RequestBody(rev, r, AmountNumber(r), genTitle, genRef)
            /\ calls' = 1
            /\ pc' = "awaiting"
            /\ resp' = NoResp
    /\ UNCHANGED <<rev, secretKey, companyId, other>>

\* fetch and response.text() resolve: the rest of the handler runs
ProviderReplies(rp) ==
    /\ pc = "awaiting"
    /\ route = PostRoute
    /\ reply' = rp
    /\ resp' = ReplyResponse(rev, req, rp.status, rp.text, rp.doc)
    /\ pc' = "done"
    /\ UNCHANGED <<rev, route, secretKey, companyId, req, sent, calls, other>>

\* faulty variant: a failed call is issued again
FetchFailsAndRetries ==
    /\ pc = "awaiting"
    /\ route = PostRoute
    /\ calls' = calls + 1
    /\ UNCHANGED <<rev, route, secretKey, companyId, pc, req, sent, reply, resp, other>>

\* faulty variant: a failed call is answered 502
FetchFailsBadGateway ==
    /\ pc = "awaiting"
    /\ route = PostRoute
    /\ resp' = [InternalError("request to apiv2.payevo.com.br failed") EXCEPT !.http = 502]
    /\ pc' = "done"
    /\ UNCHANGED <<rev, route, secretKey, companyId, req, sent, calls, reply, other>>

\* fetch rejects: the catch of the handler
FetchFails ==
    /\ pc = "awaiting"
    /\ route = PostRoute
    /\ resp' = InternalError("request to apiv2.payevo.com.br failed")
    /\ pc' = "done"
    /\ UNCHANGED <<rev, route, secretKey, companyId, req, sent, calls, reply, other>>

\* GET /transactions/:transactionId up to its suspension at `await fetch`
GetPaymentStatus(id) ==
    /\ pc = "idle"
    /\ route' = GetRoute
    /\ req' = StatusRequest(id)
    /\ reply' = NoReply
    /\ sent' = NoBody
    /\ IF StatusEarlyResponse(secretKey, id) # NoResp
       THEN /\ resp' = StatusEarlyResponse(secretKey, id)
            /\ pc' = "done"
            /\ calls' = 0
       ELSE /\ calls' = 1
            /\ pc' = "awaiting"
            /\ resp' = NoResp
    /\ UNCHANGED <<rev, secretKey, companyId, other>>

\* fetch and response.text() resolve: the rest of the status lookup runs
StatusProviderReplies(rp) ==
    /\ pc = "awaiting"
    /\ route = GetRoute
    /\ reply' = rp
    /\ resp' = StatusReplyResponse(req.transactionId, rp.status, rp.text, rp.doc)
    /\ pc' = "done"
    /\ UNCHANGED <<rev, route, secretKey, companyId, req, sent, calls, other>>

\* fetch rejects: the catch of the status lookup
StatusFetchFails ==
    /\ pc = "awaiting"
    /\ route = GetRoute
    /\ resp' = InternalError("request to apiv2.payevo.com.br failed")
    /\ pc' = "done"
    /\ UNCHANGED <<rev, route, secretKey, companyId, req, sent, calls, reply, other>>

\* the response is sent; nothing of the request is kept
Finish ==
    /\ pc = "done"
    /\ pc' = "idle"
    /\ route' = ""
    /\ req' = BaseReq
    /\ sent' = NoBody
    /\ calls' = 0
    /\ reply' = NoReply
    /\ resp' = NoResp
    /\ UNCHANGED <<rev, secretKey, companyId, other>>

Accept == pc = "idle" /\ \E r \in Requests, t \in GeneratedTitles, x \in GeneratedRefs :
                            CreatePayment(r, t, x)

Resolve == pc = "awaiting" /\ \E rp \in Replies : ProviderReplies(rp)

Next ==
    \/ Accept
    \/ Resolve
    \/ FetchFails
    \/ Finish

Spec == Init /\ [][Next]_vars

SpecRevisions == InitRevisions /\ [][Next]_vars

----------------------------------------------------------------------------
(* Both routes.  A call that has been issued settles: the provider answers *)
(* or the transport fails, and the handler's continuation then runs.       *)

Lookup == pc = "idle" /\ \E id \in TransactionIds : GetPaymentStatus(id)

StatusResolve == pc = "awaiting" /\ \E rp \in StatusReplies : StatusProviderReplies(rp)

\* the step that ends a suspension: the transport fails, or a reply arrives
\* and the rest of the handler runs on it
Settle ==
    \/ FetchFails
    \/ StatusFetchFails
    \/ pc = "awaiting" /\ ProviderReplies(reply')
    \/ pc = "awaiting" /\ StatusProviderReplies(reply')

NextService ==
    \/ Accept
    \/ Resolve
    \/ FetchFails
    \/ Lookup
    \/ StatusResolve
    \/ StatusFetchFails
    \/ Finish

SpecService == Init /\ [][NextService]_vars /\ WF_vars(Settle)

----------------------------------------------------------------------------
(* Properties of createPayment in server.js *)

Absent(v) == v.t = "undefined"
NonEmpty(v) == v.t \notin {"undefined", "null"} /\ v # Str(<<>>)

\* the first present, non-empty value of a priority list, else ''
RECURSIVE FirstNonEmpty(_)
FirstNonEmpty(vs) ==
    IF vs = <<>> THEN Str(<<>>)
    ELSE IF NonEmpty(Head(vs)) THEN Head(vs) ELSE FirstNonEmpty(Tail(vs))

\* the first string of a priority list that starts with the image marker, else ''
RECURSIVE FirstImage(_)
FirstImage(vs) ==
    IF vs = <<>> THEN Str(<<>>)
    ELSE IF Head(vs).t = "string" /\ Head(vs).s # <<>> /\ Head(vs).s[1] = ImageMarker
    THEN Head(vs) ELSE FirstImage(Tail(vs))

Replied == pc = "done" /\ reply # NoReply

\* what the handler decoded from the reply
Decoded == JsonParse(CleanedResponse(rev, reply.text), reply.doc)

\* the handler answered with res.json of a CanonicalPaymentResult
Canonical == Replied /\ resp.http = 200 /\ Absent(resp.error) /\ ~Absent(resp.payload)

\* C1: with the secret key configured, a request whose amount is not numeric
\* or parses to a number <= 0 is answered 400 and no outbound call is made,
\* whatever its other fields are.
AmountUnusable(a) == IsNaN(ParseFloat(a)) \/ ParseFloat(a).n <= 0

C1_InvalidAmountRejected ==
    (secretKey /\ pc # "idle" /\ AmountUnusable(req.amount))
        => (pc = "done" /\ resp.http = 400 /\ calls = 0 /\ sent = NoBody)

C1_Witness ==
    /\ secretKey /\ pc = "done" /\ calls = 0
    /\ req = [BaseReq EXCEPT !.amount = Str(<<"0", ".", "0", "0">>)]
    /\ resp.http = 400 /\ resp.error = Str(<<"Valor invalido">>)

\* C2: with the secret key configured, a request in which customer.name,
\* customer.email, customer.phone, customer.document or amount is absent is
\* answered 400 (never 500, never a provider status) and the provider is not
\* called.
RequiredAbsent(r) ==
    \/ Absent(r.amount)
    \/ Absent(Member(r.customer, r.name))
    \/ Absent(Member(r.customer, r.email))
    \/ Absent(Member(r.customer, r.phone))
    \/ Absent(Member(r.customer, r.document))

C2_MissingFieldRejected ==
    (secretKey /\ pc # "idle" /\ RequiredAbsent(req))
        => (pc = "done" /\ resp.http = 400 /\ calls = 0 /\ sent = NoBody)

C2_Witness ==
    /\ secretKey /\ pc = "done" /\ calls = 0
    /\ req = [BaseReq EXCEPT !.document = Undef, !.docNumber = Undef, !.docType = Undef]
    /\ resp.http = 400 /\ resp.error = Str(<<"Dados invalidos">>)

\* C3: in every revision, the body sent to the provider carries the same
\* number as amount and as items[0].unitPrice.
C3_AmountEqualsUnitPrice ==
    calls = 1 => (sent.amount.t = "number" /\ sent.unitPrice = sent.amount)

C3_Witness ==
    /\ rev = "server.js" /\ pc = "awaiting" /\ calls = 1
    /\ req.amount = Num(30990)
    /\ sent.amount = Whole(3099) /\ sent.unitPrice = Whole(3099)

\* C4: the body is "0", whitespace, then a JSON object whose message has fee
\* wording.
FeeJsonBehindZero ==
    /\ Replied
    /\ reply.text = <<"0", " ", DocToken>>
    /\ reply.doc.v = Obj
    /\ \E w \in FeeWords : \E i \in 1..Len(reply.doc.f.message.s) :
          TokenHas(reply.doc.f.message.s[i], w)

\* C4 as claimed: for any provider status the result is the fee error, HTTP 400.
C4_FeeErrorForPrefixedJson ==
    FeeJsonBehindZero => (resp.http = 400 /\ resp.error = Str(<<"Erro no valor">>))

\* C4 as amended: the "0 " is stripped and the body decodes, so the fee wording
\* is never inspected: with a non-success provider status the result is the
\* provider error with the provider's status and the body's message, with a
\* success status the body is answered as a successful response; it is never
\* the fee error.
C4_PrefixedJsonFollowsProviderStatus ==
    FeeJsonBehindZero =>
        /\ resp.error # Str(<<"Erro no valor">>)
        /\ IF ResponseOk(reply.status)
           THEN resp.http = 200 /\ resp.status = reply.doc.f.status /\ resp.payload = Str(<<>>)
           ELSE /\ resp.http = reply.status
                /\ resp.message = reply.doc.f.message
                /\ resp.details = Obj

C4_Witness ==
    /\ FeeJsonBehindZero /\ reply.status = 503
    /\ resp.http = 503 /\ resp.message = Str(FeeMessage)

\* C5: decoding agrees, for every provider body, with the two-step reference:
\* decode the trimmed text; only if that fails and the text begins with digits
\* and whitespace, strip that one prefix and decode again.
ReferenceDecode(text, doc) ==
    LET t == Trim(text) IN
    IF JsonParse(t, doc).ok THEN JsonParse(t, doc)
    ELSE IF StartsDigitsSpace(t) THEN JsonParse(StripDigits(t), doc)
    ELSE NotJson

C5_DecodingMatchesReference ==
    Replied => Decoded = ReferenceDecode(reply.text, reply.doc)

\* C6: when the body cannot be decoded, fee wording in the raw text gives the
\* fee error with HTTP 400 whatever the provider's status; otherwise the
\* response has the provider's status and carries the raw text unmodified.
C6_UndecodableBody ==
    (Replied /\ ~Decoded.ok) =>
        IF \E w \in {"taxas", "taxa", "Valor somado"} : Includes(reply.text, reply.doc, w)
        THEN resp.http = 400 /\ resp.error = Str(<<"Erro no valor">>)
        ELSE /\ resp.http = reply.status
             /\ resp.error = Str(<<"Erro na API Payevo">>)
             /\ resp.rawResponse = Str(reply.text)

C6_Witness ==
    /\ Replied /\ reply.status = 503 /\ reply.text = <<"Internal Server Error">>
    /\ resp.http = 503 /\ resp.rawResponse = Str(<<"Internal Server Error">>)

\* C7: a body that decodes as JSON, whatever the value, under a non-success
\* provider status is answered as a provider error: the provider's status, the
\* body's error if it has one, the body's message, else its details, else the
\* raw text, and the decoded body as details.
C7_ProviderErrorForAnyJson ==
    (Replied /\ Decoded.ok /\ ~ResponseOk(reply.status)) =>
        /\ resp.http = reply.status
        /\ Truthy(Decoded.f.error) => resp.error = Decoded.f.error
        /\ resp.message = FirstNonEmpty(<<Decoded.f.message, Decoded.f.details, Str(reply.text)>>)
        /\ resp.details = Decoded.v /\ Absent(resp.rawResponse)

\* C8: in a canonical result the payload is the first present, non-empty of
\* payload, pixCopyPaste, pix.copyPaste, pix.qrcode ('' if none), the
\* transactionId the first of id, transactionId, transaction.id, and the
\* status the provider's, or "pending" when absent.
C8_FieldPriority ==
    Canonical =>
        /\ resp.payload = FirstNonEmpty(<<Decoded.f.payload, Decoded.f.pixCopyPaste,
                                          Decoded.f.pix_copyPaste, Decoded.f.pix_qrcode>>)
        /\ resp.transactionId = FirstNonEmpty(<<Decoded.f.id, Decoded.f.transactionId,
                                                Decoded.f.transaction_id>>)
        /\ resp.status = IF Absent(Decoded.f.status) THEN Str(<<"pending">>)
                         ELSE Decoded.f.status

C8_Witness ==
    /\ Canonical
    /\ Decoded.f.payload = Str(<<>>) /\ Absent(Decoded.f.pixCopyPaste)
    /\ Decoded.f.pix_copyPaste = Str(<<>>)
    /\ resp.payload = Str(<<"000201", "D">>) /\ resp.payload = Decoded.f.pix_qrcode
    /\ resp.transactionId = Str(<<"tx_1">>) /\ resp.status = Str(<<"pending">>)

\* C9 as claimed: the qrCode is the first of qrCodeBase64, qrCode, pix.qrcode,
\* pix.qrCode that starts with the image marker, '' when none does.
C9_QrCodeFromFourLocations ==
    Canonical =>
        resp.qrCode = FirstImage(<<Decoded.f.qrCodeBase64, Decoded.f.qrCode,
                                   Decoded.f.pix_qrcode, Decoded.f.pix_qrCode>>)

\* C9 as amended: the qrCode is the first of qrCodeBase64, qrCode that starts
\* with the image marker, '' when neither does; a value without the marker is
\* never returned, and pix.qrcode and pix.qrCode are not read for it.
C9_QrCodeFromTwoLocations ==
    Canonical => resp.qrCode = FirstImage(<<Decoded.f.qrCodeBase64, Decoded.f.qrCode>>)

C9_Witness ==
    /\ Canonical
    /\ Decoded.f.qrCodeBase64 = Str(<<"000201", "A">>) /\ Absent(Decoded.f.qrCode)
    /\ Decoded.f.pix_qrCode = Image("D")
    /\ resp.qrCode = Str(<<>>)

\* C10: in a canonical result, a numeric provider amount a, 0 included, gives
\* the amount a/100.
C10_ProviderAmountInMajorUnits ==
    (Canonical /\ Decoded.f.amount.t = "number")
        => resp.amount = Num(Decoded.f.amount.n \div 100)

----------------------------------------------------------------------------
(* Properties of getPaymentStatus and of both routes *)

\* what the status lookup decoded from the reply
StatusDecoded == JsonParse(reply.text, reply.doc)

StatusReplied == route = GetRoute /\ pc = "done" /\ reply # NoReply

\* the lookup answered with res.json of a CanonicalStatusResult
StatusCanonical == StatusReplied /\ resp.http = 200 /\ Absent(resp.error)

\* C11: in a canonical status result, a numeric provider amount a, 0 included,
\* gives the amount a/100, and the amount is null only when the provider's
\* response has no numeric amount.
C11_StatusAmountInMajorUnits ==
    StatusCanonical =>
        /\ StatusDecoded.f.amount.t = "number"
              => resp.amount = Num(StatusDecoded.f.amount.n \div 100)
        /\ resp.amount = Null => StatusDecoded.f.amount.t # "number"

\* C12: without the secret key every request of either route, whatever it
\* holds, is answered with the configuration error, HTTP 500, and no outbound
\* call is made.
C12_NoKeyNoCall ==
    (~secretKey /\ pc # "idle") =>
        /\ pc = "done"
        /\ resp.http = 500
        /\ resp.error = Str(<<"Configuracao do servidor incompleta">>)
        /\ calls = 0 /\ sent = NoBody /\ reply = NoReply

C12_Witness ==
    /\ ~secretKey /\ pc = "done" /\ route = PostRoute
    /\ req.customer = Undef /\ req.amount = Str(<<"a", "b", "c">>)
    /\ resp.http = 500 /\ calls = 0

\* C13: a request issues at most one outbound call: the count is 0 or 1, and
\* once the handler has started nothing raises it, whatever the outcome of
\* the call.
C13_AtMostOneCall ==
    [][calls' \in {0, 1} /\ (pc # "idle" => calls' <= calls)]_vars

C13_Witness ==
    /\ route = GetRoute /\ pc = "done" /\ calls = 1
    /\ reply.status = 503 /\ resp.http = 503

\* C14: a request has a response exactly when its handler is done; the
\* response, once sent, is not replaced; a call that failed in transport is
\* answered 500; and a suspended request is eventually answered.
C14_ExactlyOneResponse ==
    /\ [](pc = "done" <=> resp # NoResp)
    /\ [][resp # NoResp => (resp' = resp \/ (pc' = "idle" /\ resp' = NoResp))]_vars
    /\ []((pc = "done" /\ calls = 1 /\ reply = NoReply) => resp.http = 500)
    /\ (pc = "awaiting" ~> pc = "done")

C14_Witness ==
    /\ route = GetRoute /\ pc = "done" /\ calls = 1 /\ reply = NoReply
    /\ resp.http = 500 /\ resp.error = Str(<<"Erro interno do servidor">>)

----------------------------------------------------------------------------
(* Sanitization of the phone and the document number: createPayment on     *)
(* every string of up to MaxNumberLen characters.                          *)

MaxNumberLen == 3

NumberChars == {"0", "4", "9", "(", "-", " ", "a"}

RECURSIVE Strings(_)
Strings(k) ==
    IF k = 0 THEN {<<>>}
    ELSE {<<>>} \cup {<<c>> \o s : c \in NumberChars, s \in Strings(k - 1)}

SanitizeReqs ==
    { [BaseReq EXCEPT !.phone = Str(s)] : s \in Strings(MaxNumberLen) }
    \cup { [BaseReq EXCEPT !.docNumber = Str(s)] : s \in Strings(MaxNumberLen) }

SanitizeReplies ==
    { [status |-> st, text |-> <<DocToken>>, doc |-> d] : st \in {200, 400}, d \in SmallDocs }

SanitizeAccept ==
    pc = "idle" /\ \E r \in SanitizeReqs, t \in GeneratedTitles, x \in GeneratedRefs :
                       CreatePayment(r, t, x)

SanitizeResolve == pc = "awaiting" /\ \E rp \in SanitizeReplies : ProviderReplies(rp)

NextSanitize ==
    \/ SanitizeAccept
    \/ SanitizeResolve
    \/ FetchFails
    \/ Finish

SpecSanitize == Init /\ [][NextSanitize]_vars

OnlyDigits(s) == \A i \in 1..Len(s) : IsDigit(s[i])

\* C15: removing the non-digits of the request's phone and document number a
\* second time changes nothing, and the phone and document number sent to
\* the provider hold digits only.
C15_SanitizedNumbers ==
    calls = 1 =>
        /\ StripNonDigits(StripNonDigits(req.phone.s)) = StripNonDigits(req.phone.s)
        /\ StripNonDigits(StripNonDigits(req.docNumber.s)) = StripNonDigits(req.docNumber.s)
        /\ sent.phone.t = "string" /\ OnlyDigits(sent.phone.s)
        /\ sent.docNumber.t = "string" /\ OnlyDigits(sent.docNumber.s)

C15_Witness ==
    /\ pc = "awaiting" /\ calls = 1
    /\ req.phone = Str(<<"(", "9", "-">>)
    /\ sent.phone = Str(<<"9">>)
    /\ sent.docNumber = Str(<<"0", "4", "2", "8", "5">>)

----------------------------------------------------------------------------
(* Two createPayment requests in flight at once: each handler invocation   *)
(* has its own req, res and locals, and the module's bindings are consts.  *)

ConcurrentRequests ==
    { BaseReq, [BaseReq EXCEPT !.amount = Num(30990)], [BaseReq EXCEPT !.amount = Undef],
      [BaseReq EXCEPT !.phone = Whole(11999)] }

ConcurrentReplies ==
    { [status |-> 200, text |-> <<DocToken>>,
       doc |-> JsonObject([NoFields EXCEPT !.id = Str(<<"tx_1">>), !.amount = a])] :
        a \in {Undef, Whole(3000)} }
    \cup { [status |-> 503, text |-> <<"Internal Server Error">>, doc |-> NoDoc],
           [status |-> 400, text |-> FeeMessage, doc |-> NoDoc] }

OtherCreatePayment(r, genTitle, genRef) ==
    /\ other.pc = "idle"
    /\ other' = IF EarlyResponse(rev, secretKey, companyId, r) # NoResp
                THEN [NoOther EXCEPT !.pc = "done", !.req = r,
                                     !.resp = EarlyResponse(rev, secretKey, companyId, r)]
                ELSE [NoOther EXCEPT !.pc = "awaiting", !.req = r, !.calls = 1,
                                     !.sent = RequestBody(rev, r, AmountNumber(r), genTitle, genRef)]
    /\ UNCHANGED <<rev, route, secretKey, companyId, pc, req, sent, calls, reply, resp>>

\* faulty variant: the request is read from a binding the handlers share
OtherProviderRepliesSharedRequest(rp) ==
    /\ other.pc = "awaiting"
    /\ other' = [other EXCEPT !.pc = "done", !.reply = rp,
                              !.resp = ReplyResponse(rev, req, rp.status, rp.text, rp.doc)]
    /\ UNCHANGED <<rev, route, secretKey, companyId, pc, req, sent, calls, reply, resp>>

OtherProviderReplies(rp) ==
    /\ other.pc = "awaiting"
    /\ other' = [other EXCEPT !.pc = "done", !.reply = rp,
                              !.resp = ReplyResponse(rev, other.req, rp.status, rp.text, rp.doc)]
    /\ UNCHANGED <<rev, route, secretKey, companyId, pc, req, sent, calls, reply, resp>>

OtherFetchFails ==
    /\ other.pc = "awaiting"
    /\ other' = [other EXCEPT !.pc = "done",
                              !.resp = InternalError("request to apiv2.payevo.com.br failed")]
    /\ UNCHANGED <<rev, route, secretKey, companyId, pc, req, sent, calls, reply, resp>>

OtherFinish ==
    /\ other.pc = "done"
    /\ other' = NoOther
    /\ UNCHANGED <<rev, route, secretKey, companyId, pc, req, sent, calls, reply, resp>>

ConcurrentAccept ==
    pc = "idle" /\ \E r \in ConcurrentRequests, t \in GeneratedTitles, x \in GeneratedRefs :
                       CreatePayment(r, t, x)

ConcurrentResolve == pc = "awaiting" /\ \E rp \in ConcurrentReplies : ProviderReplies(rp)

OtherAccept ==
    other.pc = "idle" /\ \E r \in ConcurrentRequests, t \in GeneratedTitles, x \in GeneratedRefs :
                             OtherCreatePayment(r, t, x)

OtherResolve == other.pc = "awaiting" /\ \E rp \in ConcurrentReplies : OtherProviderReplies(rp)

NextConcurrent ==
    \/ ConcurrentAccept
    \/ ConcurrentResolve
    \/ FetchFails
    \/ Finish
    \/ OtherAccept
    \/ OtherResolve
    \/ OtherFetchFails
    \/ OtherFinish

SpecConcurrent == Init /\ [][NextConcurrent]_vars

\* the response to request r given the configuration and what became of its
\* own call: rp, or NoReply when the call failed
Determined(r, rp) ==
    IF EarlyResponse(rev, secretKey, companyId, r) # NoResp
    THEN EarlyResponse(rev, secretKey, companyId, r)
    ELSE IF rp = NoReply THEN InternalError("request to apiv2.payevo.com.br failed")
    ELSE ReplyResponse(rev, r, rp.status, rp.text, rp.doc)

\* C16: in every interleaving of two requests, the response to each is the
\* one its own input, the configuration and the reply to its own call
\* determine; a step of one request leaves the other as it was; and the
\* configuration never changes.
C16_RequestsIndependent ==
    /\ [](pc = "done" => resp = Determined(req, reply))
    /\ [](other.pc = "done" => other.resp = Determined(other.req, other.reply))
    /\ [][UNCHANGED <<rev, secretKey, companyId>>]_vars
    /\ [][other' # other => UNCHANGED <<pc, req, sent, calls, reply, resp>>]_vars
    /\ [][<<pc, req, sent, calls, reply, resp>>' # <<pc, req, sent, calls, reply, resp>>
            => other' = other]_vars

C16_Witness ==
    /\ pc = "done" /\ other.pc = "done"
    /\ reply = other.reply /\ reply.status = 200 /\ Absent(reply.doc.f.amount)
    /\ req.amount = Num(30990) /\ other.req.amount = Whole(30)
    /\ resp.amount = Num(30990) /\ other.resp.amount = Whole(30)

----------------------------------------------------------------------------
(* Status codes and the outbound amount *)

StatusDone == route = GetRoute /\ pc = "done"

\* C17 as claimed: every response of getPaymentStatus has HTTP status 200, 400
\* or 500, whatever status the provider returned.
C17_StatusIs200_400_500 ==
    StatusDone => resp.http \in {200, 400, 500}

\* C17 as amended: a non-success provider status is passed on as the status
\* of the response, with the raw body as message; every other response is 500
\* or 200, and it is 200, with transactionId, status, amount, paidAt and
\* createdAt, exactly when the body decoded to a value other than null.
C17_StatusFollowsProvider ==
    StatusDone =>
        IF reply # NoReply /\ ~ResponseOk(reply.status)
        THEN /\ resp.http = reply.status
             /\ resp.error = Str(<<"Erro ao verificar transacao">>)
             /\ resp.message = Str(reply.text)
        ELSE /\ resp.http \in {200, 500}
             /\ resp.http = 200 <=>
                    (reply # NoReply /\ StatusDecoded.ok /\ StatusDecoded.v # Null)
             /\ resp.http = 200 =>
                    /\ Absent(resp.error)
                    /\ \A v \in {resp.transactionId, resp.status, resp.amount,
                                 resp.paidAt, resp.createdAt} : ~Absent(v)
             /\ resp.http = 500 => ~Absent(resp.error)

C17_Witness ==
    /\ StatusDone /\ reply.status = 404 /\ reply.text = <<"Not Found">>
    /\ resp.http = 404 /\ resp.message = Str(<<"Not Found">>)

\* C18: a createPayment request that passed validation is sent with a
\* strictly positive integer as amount and as unitPrice.
C18_OutboundAmountPositive ==
    (route = PostRoute /\ calls = 1) =>
        /\ sent.amount.t = "number" /\ sent.amount.n > 0 /\ sent.amount.n % Unit = 0
        /\ sent.unitPrice.t = "number" /\ sent.unitPrice.n > 0 /\ sent.unitPrice.n % Unit = 0

\* C19: every createPayment response with a 2xx status is a canonical
\* result: no error member, and payload, qrCode, qrCodeUrl, transactionId,
\* amount and status present.
C19_SuccessStatusIsCanonical ==
    (route = PostRoute /\ pc = "done" /\ ResponseOk(resp.http)) =>
        /\ Absent(resp.error)
        /\ \A v \in {resp.payload, resp.qrCode, resp.qrCodeUrl, resp.transactionId,
                     resp.amount, resp.status} : ~Absent(v)

\* C20: with the secret key set, a createPayment request that passed the
\* presence check and the amount check is sent to the provider, once; it is
\* not answered before the call.
C20_ValidatedRequestIsSent ==
    ( /\ secretKey /\ route = PostRoute /\ pc # "idle"
      /\ ~MissingData(req) /\ ~InvalidAmount(AmountNumber(req)) )
        => calls = 1

\* C21: when the provider succeeds and its body carries, as amount, exactly
\* the amount it was sent, the amount of the canonical result is the client's
\* amount rounded to the nearest cent.
NearestCent(v) == Num(((v.n + 5) \div 10) * 10)

Echoed == Canonical /\ route = PostRoute /\ calls = 1 /\ Decoded.f.amount = sent.amount

C21_AmountRoundTrip ==
    Echoed => resp.amount = NearestCent(AmountNumber(req))

====
